---- MODULE Spec2Model ----
(***************************************************************************)
(* Model of the protoc-gen-prost WASI bridge (prost.go).                   *)
(*                                                                         *)
(* One wazero runtime, the ProtocGenProst value p that                     *)
(* NewProtocGenProstWithModule returns for it, and NumCallers goroutines   *)
(* that call p.Execute and p.Close.  The WASM module is a black box with a *)
(* linear memory, an allocation table and one output slot; every export    *)
(* invocation may fail at the runtime level, and an export invoked on a    *)
(* closed module always fails (api.Function.Call returns sys.ExitError).   *)
(***************************************************************************)
EXTENDS Integers, Sequences, FiniteSets, TLC

\* ---------------------------------------------------------------- bounds
NumCallers == 2
MaxLen == 1

Callers == 1..NumCallers

\* ------------------------------------------------------------- constants
\* uint32(x): pointers and lengths are truncated to the word width.  TLC's
\* integers are 32-bit signed, so the word is modelled with 30 bits; a length
\* of HugeLen (below) is one that the conversion changes.
U32Mod == 2^30
U32(x) == x % U32Mod

ExportProstExecute == "prost_execute"
ExportProstGetOutputPtr == "prost_get_output_ptr"
ExportProstGetOutputLen == "prost_get_output_len"
ExportProstClearOutput == "prost_clear_output"
ExportProstMalloc == "prost_malloc"
ExportProstFree == "prost_free"
ExportInitialize == "_initialize"
ProtocGenProstWASMFilename == "protoc-gen-prost.wasm"
WasiModuleName == "wasi_snapshot_preview1"

\* the six exports NewProtocGenProstWithModule validates, in validation order
RequiredExports ==
  << ExportProstMalloc, ExportProstFree, ExportProstExecute,
     ExportProstGetOutputPtr, ExportProstGetOutputLen, ExportProstClearOutput >>

RequiredSet == { RequiredExports[i] : i \in 1..Len(RequiredExports) }
AllExports == RequiredSet \cup {ExportInitialize}
\* an artifact is the set of names it exports
Artifacts == SUBSET AllExports

\* ------------------------------------------------- the module's memory
\* layout of the module's linear memory: address 0 is the null pointer, the
\* allocator hands out InBase, the module keeps its output at OutBase
InBase == 1
OutBase == InBase + MaxLen
MemSize == OutBase + MaxLen
Addrs == 0..(MemSize - 1)
\* a pointer past the end of memory, as a misbehaving module may report
OobPtr == MemSize

Fills == {1, 2}
\* an input []byte: len bytes, all equal to fill; HugeLen does not fit the word
HugeLen == U32Mod + 1
EmptyInput == [len |-> 0, fill |-> 0]
Inputs ==
  {EmptyInput} \cup { [len |-> n, fill |-> b] : n \in 1..MaxLen, b \in Fills }
    \cup { [len |-> HugeLen, fill |-> 1] }

\* the bytes of an input that fits into memory
Bytes(in) == [i \in 1..in.len |-> in.fill]

\* api.Memory.Write: rejected when offset+len(data) exceeds the memory size
MemWriteOk(ptr, n) == ptr + n <= MemSize
MemWrite(m, ptr, in) ==
  [a \in Addrs |-> IF a >= ptr /\ a < ptr + in.len THEN in.fill ELSE m[a]]

\* api.Memory.Read: rejected when offset+byteCount exceeds the memory size
MemReadOk(ptr, n) == ptr + n <= MemSize
MemReadShort(m, ptr, n) == [i \in 1..(n - 1) |-> m[ptr + i - 1]]
MemRead(m, ptr, n) == [i \in 1..n |-> m[ptr + i - 1]]

\* prost_execute(input_ptr, input_len): the request the module finds there
Request(m, ptr, n) == [i \in 1..n |-> m[ptr + i - 1]]

\* the module's generation logic, opaque to the bridge: a response that
\* identifies the request it was computed from (each byte b becomes 3-b)
Gen(s) == [i \in 1..Len(s) |-> 3 - s[i]]

\* outcomes of api.Function.Call: a closed module fails every call
CallOutcomes(isClosed) == IF isClosed THEN {"err"} ELSE {"ok", "err"}

\* prost_free(ptr, size): the buffer is handed back to the module
FreeCallLeak(al, ptr, size) == al
FreeCall(al, ptr, size) == al \ { [ptr |-> ptr, size |-> size] }

\* the contents of a region the module has taken back (a freed input buffer,
\* a cleared output buffer) are unspecified and never read by the bridge; the
\* model puts 0 there
Scrub(m, ptr, n) ==
  [a \in Addrs |-> IF a >= ptr /\ a < ptr + n THEN 0 ELSE m[a]]

\* sync.Mutex: Lock proceeds only when no goroutine holds the mutex
NoOne == 0
MutexFreeBroken(m) == TRUE
MutexFree(m) == m = NoOne

NoSlot == [ptr |-> 0, len |-> 0]
\* what one call did: the sizes passed to prost_malloc, the (ptr, size) pairs
\* passed to prost_free, the (ptr, len) pairs passed to prost_execute, the
\* number of prost_clear_output invocations, whether it wrote and read instance
\* memory, the bytes it copied out, whether a prost_clear_output or prost_free
\* invocation failed and whether a Close had returned when the call took the
\* lock
NoHist ==
  [mallocs |-> <<>>, frees |-> <<>>, execs |-> <<>>, clears |-> 0,
   wrote |-> FALSE, copied |-> FALSE, copy |-> <<>>, clearErr |-> FALSE,
   freeErr |-> FALSE, afterClose |-> FALSE, staleSlot |-> FALSE,
   nullAlloc |-> FALSE, writeRej |-> FALSE]

VARIABLES
  modules,    \* names of the modules instantiated in the wazero runtime
  modState,   \* the api.Module of the artifact: "none", "open", "closed"
  exports,    \* the export names of the instantiated artifact
  initCalls,  \* invocations of _initialize
  p,          \* the *ProtocGenProst returned: "nil" or "set"
  newErr,     \* the error of the last NewProtocGenProstWithModule ("" = nil)
  closeDone,  \* some p.Close has returned
  mu,         \* p.mu: NoOne or the caller that holds it
  mem,        \* the module's linear memory
  slot,       \* the module's current-output slot
  allocd,     \* buffers obtained from prost_malloc, not yet given to prost_free
  pc,         \* each caller's position
  input,      \* each caller's input argument
  inputPtr,   \* Execute's inputPtr
  outputLen,  \* Execute's outputLen
  outputPtr,  \* Execute's outputPtr
  result,     \* the []byte a call returns (<<>> with an error: nil)
  err,        \* the error a call returns ("" = nil)
  hist        \* per call: the export invocations it made

vars == << modules, modState, exports, initCalls, p, newErr, closeDone, mu, mem, slot,
           allocd, pc, input, inputPtr, outputLen, outputPtr, result, err,
           hist >>

modVars == << modules, modState, exports, initCalls, p, newErr, closeDone >>
wasmVars == << mem, slot, allocd >>
callVars == << input, inputPtr, outputLen, outputPtr, result, err, hist >>

closed == modState = "closed"

Init ==
  /\ modules = {}
  /\ modState = "none"
  /\ exports = {}
  /\ initCalls = 0
  /\ p = "nil"
  /\ newErr = ""
  /\ closeDone = FALSE
  /\ mu = NoOne
  /\ mem = [a \in Addrs |-> 0]
  /\ slot = NoSlot
  /\ allocd = {}
  /\ pc = [c \in Callers |-> "idle"]
  /\ input = [c \in Callers |-> EmptyInput]
  /\ inputPtr = [c \in Callers |-> 0]
  /\ outputLen = [c \in Callers |-> 0]
  /\ outputPtr = [c \in Callers |-> 0]
  /\ result = [c \in Callers |-> <<>>]
  /\ err = [c \in Callers |-> ""]
  /\ hist = [c \in Callers |-> NoHist]

\* ------------------------------------------------------- instantiation
\* the first required export the artifact lacks, in validation order
FirstMissing(art) ==
  LET miss == { i \in 1..Len(RequiredExports) : RequiredExports[i] \notin art }
  IN  RequiredExports[CHOOSE i \in miss : \A j \in miss : i <= j]

\* the error NewProtocGenProstWithModule returns ("" = nil, an instance).
\* The runtime refuses to instantiate a module under a name it already holds:
\* wasi_snapshot_preview1.Instantiate fails once the runtime has the WASI
\* module, InstantiateModule fails while a module named
\* ProtocGenProstWASMFilename is open (closing a module releases its name).
NewResultLenUnchecked(mods, art, instOk, initOk) ==
  IF WasiModuleName \in mods THEN "failed to instantiate WASI"
  ELSE IF ProtocGenProstWASMFilename \in mods \/ ~instOk
    THEN "failed to instantiate module"
  ELSE IF ExportInitialize \in art /\ ~initOk THEN "_initialize failed"
  ELSE IF ~((RequiredSet \ {ExportProstGetOutputLen}) \subseteq art)
    THEN "missing export: " \o FirstMissing(art)
  ELSE ""

NewResultInitLate(mods, art, instOk, initOk) ==
  IF WasiModuleName \in mods THEN "failed to instantiate WASI"
  ELSE IF ProtocGenProstWASMFilename \in mods \/ ~instOk
    THEN "failed to instantiate module"
  ELSE IF ~(RequiredSet \subseteq art)
    THEN "missing export: " \o FirstMissing(art)
  ELSE IF ExportInitialize \in art /\ ~initOk THEN "_initialize failed"
  ELSE ""

NewResult(mods, art, instOk, initOk) ==
  IF WasiModuleName \in mods THEN "failed to instantiate WASI"
  ELSE IF ProtocGenProstWASMFilename \in mods \/ ~instOk
    THEN "failed to instantiate module"
  ELSE IF ExportInitialize \in art /\ ~initOk THEN "_initialize failed"
  ELSE IF ~(RequiredSet \subseteq art)
    THEN "missing export: " \o FirstMissing(art)
  ELSE ""

NewProtocGenProstWithModule(art, instOk, initOk) ==
  LET e == NewResult(modules, art, instOk, initOk)
      wasiOk == WasiModuleName \notin modules
      instantiated ==
        wasiOk /\ instOk /\ ProtocGenProstWASMFilename \notin modules
  IN
  /\ newErr' = e
  /\ modules' =
       IF ~wasiOk THEN modules
       ELSE IF e = "" THEN modules \cup {WasiModuleName, ProtocGenProstWASMFilename}
       ELSE modules \cup {WasiModuleName}
  /\ modState' =
       IF ~instantiated THEN modState
       ELSE IF e = "" THEN "open" ELSE "closed"
  /\ exports' = IF instantiated THEN art ELSE exports
  /\ initCalls' =
       IF instantiated /\ ExportInitialize \in art
         THEN initCalls + 1 ELSE initCalls
  /\ p' = IF e = "" THEN "set" ELSE p
  /\ UNCHANGED << closeDone, mu, wasmVars, pc, callVars >>

\* ------------------------------------------------------------- Execute
\* a goroutine calls p.Execute(ctx, input) and blocks in p.mu.Lock()
Execute_Call(c) ==
  /\ pc[c] = "idle"
  /\ p = "set"
  /\ pc' = [pc EXCEPT ![c] = "lock"]
  /\ UNCHANGED << modVars, mu, wasmVars, callVars >>

\* p.mu.Lock() returns.  The input argument is private to the call until
\* allocBytes uses it, so its value is drawn here; the call's record starts
\* with whether a Close has already returned and whether an earlier call
\* that failed has left the module's output slot populated.
Execute_Lock(c) ==
  /\ pc[c] = "lock"
  /\ MutexFree(mu)
  /\ mu' = c
  /\ \E in \in Inputs : input' = [input EXCEPT ![c] = in]
  /\ hist' = [hist EXCEPT ![c] = [NoHist EXCEPT !.afterClose = closeDone,
                                                !.staleSlot = (slot /= NoSlot)]]
  /\ pc' = [pc EXCEPT ![c] = "alloc"]
  /\ UNCHANGED << modVars, wasmVars, inputPtr, outputLen, outputPtr,
                  result, err >>

\* the pointers prost_malloc may return: null, a buffer, or a pointer the
\* memory does not contain
MallocPtrs == {0, InBase, OobPtr}

\* allocBytes: if len(data) == 0 { return 0, nil }
IsEmptyNever(data) == FALSE
IsEmpty(data) == data.len = 0

\* allocBytes: if ptr == 0 { return 0, errors.New("malloc returned null") }
IsNullNever(ptr) == FALSE
IsNull(ptr) == ptr = 0

\* allocBytes, after a rejected write: p.free.Call(ctx, ptr, len(data)), its
\* error dropped; f is the outcome of the invocation
WriteFailFreesTwice(h, buf, f) ==
  [h EXCEPT !.frees = Append(Append(@, buf), buf), !.freeErr = (f = "err")]

WriteFailFrees(h, buf, f) ==
  [h EXCEPT !.frees = Append(@, buf), !.freeErr = (f = "err")]

\* inputPtr, err := p.allocBytes(ctx, input), and the error return of Execute
AllocFail(c, msg, h) ==
  /\ err' = [err EXCEPT ![c] = "failed to allocate input: " \o msg]
  /\ result' = [result EXCEPT ![c] = <<>>]
  /\ hist' = [hist EXCEPT ![c] = h]
  /\ pc' = [pc EXCEPT ![c] = "unlock"]
  /\ UNCHANGED << inputPtr, mem >>

allocBytes(c) ==
  /\ pc[c] = "alloc"
  /\ LET data == input[c] IN
     IF IsEmpty(data)
     THEN /\ inputPtr' = [inputPtr EXCEPT ![c] = 0]
          /\ pc' = [pc EXCEPT ![c] = "exec"]
          /\ UNCHANGED << allocd, mem, err, result, hist >>
     ELSE \E o \in CallOutcomes(closed), r \in MallocPtrs :
          LET ptr == U32(r)
              h1 == [hist[c] EXCEPT !.mallocs = Append(@, data.len),
                                    !.nullAlloc = (o = "err" \/ ptr = 0)]
              buf == [ptr |-> ptr, size |-> data.len]
          IN
          IF o = "err"
          THEN AllocFail(c, "call", h1) /\ UNCHANGED allocd
          ELSE IF IsNull(ptr)
          THEN AllocFail(c, "malloc returned null", h1) /\ UNCHANGED allocd
          ELSE IF ~MemWriteOk(ptr, data.len)
          THEN /\ \E f \in CallOutcomes(closed) :
                    AllocFail(c, "failed to write to memory",
                      WriteFailFrees([h1 EXCEPT !.writeRej = TRUE], buf, f))
               /\ allocd' = FreeCall(allocd \cup {buf}, ptr, data.len)
          ELSE /\ allocd' = allocd \cup {buf}
               /\ mem' = MemWrite(mem, ptr, data)
               /\ inputPtr' = [inputPtr EXCEPT ![c] = ptr]
               /\ hist' = [hist EXCEPT ![c] = [h1 EXCEPT !.wrote = TRUE]]
               /\ pc' = [pc EXCEPT ![c] = "exec"]
               /\ UNCHANGED << err, result >>
  /\ UNCHANGED << modVars, mu, slot, input, outputLen, outputPtr >>

\* an error return of Execute after the deferred freePtr was registered
FailNoDefer(c, msg) ==
  /\ err' = [err EXCEPT ![c] = msg]
  /\ result' = [result EXCEPT ![c] = <<>>]
  /\ pc' = [pc EXCEPT ![c] = "unlock"]

Fail(c, msg) ==
  /\ err' = [err EXCEPT ![c] = msg]
  /\ result' = [result EXCEPT ![c] = <<>>]
  /\ pc' = [pc EXCEPT ![c] = "free"]

\* where the module may put its response: its buffer, or a location it
\* misreports
OutPtrs == {OutBase, OobPtr}

\* results, err := p.prostExecute.Call(ctx, inputPtr, len(input))
Execute_prostExecute(c) ==
  /\ pc[c] = "exec"
  /\ hist' = [hist EXCEPT ![c].execs =
                Append(@, [ptr |-> inputPtr[c], len |-> input[c].len])]
  /\ \E o \in CallOutcomes(closed), op \in OutPtrs :
       IF o = "err"
       THEN /\ Fail(c, "prost_execute failed")
            /\ UNCHANGED << mem, slot, outputLen >>
       ELSE LET req == Request(mem, inputPtr[c], input[c].len)
                out == Gen(req)
            IN
            /\ mem' = IF op = OutBase
                        THEN [a \in Addrs |->
                               IF a >= OutBase /\ a < OutBase + Len(out)
                                 THEN out[a - OutBase + 1] ELSE mem[a]]
                        ELSE mem
            /\ slot' = [ptr |-> op, len |-> Len(out)]
            /\ outputLen' = [outputLen EXCEPT ![c] = U32(Len(out))]
            /\ pc' = [pc EXCEPT ![c] = "getptr"]
            /\ UNCHANGED << err, result >>
  /\ UNCHANGED << modVars, mu, allocd, input, inputPtr, outputPtr >>

\* prost_get_output_len(): the length of the module's output buffer
prostGetOutputLen == slot.len

\* results, err = p.prostGetOutputPtr.Call(ctx)
Execute_prostGetOutputPtr(c) ==
  /\ pc[c] = "getptr"
  /\ \E o \in CallOutcomes(closed) :
       IF o = "err"
       THEN Fail(c, "prost_get_output_ptr failed") /\ UNCHANGED outputPtr
       ELSE /\ outputPtr' = [outputPtr EXCEPT ![c] = U32(slot.ptr)]
            /\ pc' = [pc EXCEPT ![c] = "read"]
            /\ UNCHANGED << err, result >>
  /\ UNCHANGED << modVars, mu, wasmVars, input, inputPtr, outputLen, hist >>

\* if !ok { return nil, errors.New("failed to read output from memory") }
ReadFailCleared(c) ==
  /\ Fail(c, "failed to read output from memory")
  /\ hist' = [hist EXCEPT ![c].clears = @ + 1]

ReadFail(c) ==
  /\ Fail(c, "failed to read output from memory")
  /\ UNCHANGED hist

\* output, ok := p.mod.Memory().Read(outputPtr, outputLen), and the copy
Execute_Read(c) ==
  /\ pc[c] = "read"
  /\ IF ~MemReadOk(outputPtr[c], outputLen[c])
     THEN ReadFail(c)
     ELSE LET output == MemRead(mem, outputPtr[c], outputLen[c]) IN
          /\ result' = [result EXCEPT ![c] = output]
          /\ hist' = [hist EXCEPT ![c].copied = TRUE, ![c].copy = output]
          /\ pc' = [pc EXCEPT ![c] = "clear"]
          /\ UNCHANGED err
  /\ UNCHANGED << modVars, mu, wasmVars, input, inputPtr, outputLen,
                  outputPtr >>

\* if _, err := p.prostClearOutput.Call(ctx); err != nil { return nil, ... }
\* return result, nil
\* result := make([]byte, len(output)); copy(result, output): what result
\* holds once the instance memory has become m, cp being the bytes copied.
\* The copy lives in host storage; a result left as the view that
\* Memory().Read returned would follow the memory.
CopiedAlias(m, ptr, n, cp) == [i \in 1..n |-> m[ptr + (i - 1)]]
Copied(m, ptr, n, cp) == cp

ClearReturnBestEffort(c, o) ==
  /\ IF o = "err" THEN UNCHANGED << slot, mem >>
     ELSE slot' = NoSlot /\ mem' = Scrub(mem, OutBase, MaxLen)
  /\ err' = [err EXCEPT ![c] = ""]
  /\ pc' = [pc EXCEPT ![c] = "free"]
  /\ UNCHANGED result

ClearReturn(c, o) ==
  IF o = "err"
  THEN Fail(c, "prost_clear_output failed") /\ UNCHANGED << slot, mem >>
  ELSE /\ slot' = NoSlot
       /\ mem' = Scrub(mem, OutBase, MaxLen)
       /\ err' = [err EXCEPT ![c] = ""]
       /\ pc' = [pc EXCEPT ![c] = "free"]
       /\ result' = [result EXCEPT
                      ![c] = Copied(mem', outputPtr[c], outputLen[c], @)]

\* p.prostClearOutput.Call(ctx) and the return that follows it
Execute_prostClearOutput(c) ==
  /\ pc[c] = "clear"
  /\ \E o \in CallOutcomes(closed) :
       /\ hist' = [hist EXCEPT ![c].clears = @ + 1,
                               ![c].clearErr = (o = "err")]
       /\ ClearReturn(c, o)
  /\ UNCHANGED << modVars, mu, allocd, input, inputPtr, outputLen,
                  outputPtr >>

\* freePtr: if ptr != 0 { p.free.Call(...) }
NeedsFreeNever(ptr) == FALSE
NeedsFree(ptr) == ptr /= 0

\* freePtr drops the error of p.free.Call: the call's error stays as it was
ErrAfterFreeReported(e, f) ==
  IF f = "err" /\ e = "" THEN "prost_free failed" ELSE e
ErrAfterFree(e, f) == e

\* defer p.freePtr(ctx, inputPtr, uint32(len(input)))
freePtrAfterUnlock(c) ==
  /\ pc[c] = "free"
  /\ mu' = NoOne
  /\ LET ptr == inputPtr[c]
         size == U32(input[c].len)
     IN
     IF NeedsFree(ptr)
     THEN /\ \E f \in CallOutcomes(closed) :
               /\ hist' = [hist EXCEPT
                            ![c].frees = Append(@, [ptr |-> ptr, size |-> size]),
                            ![c].freeErr = (f = "err")]
               /\ err' = [err EXCEPT ![c] = ErrAfterFree(@, f)]
          /\ allocd' = FreeCall(allocd, ptr, size)
          /\ mem' = Scrub(mem, ptr, size)
     ELSE UNCHANGED << hist, allocd, mem, err >>
  /\ pc' = [pc EXCEPT ![c] = "unlock"]
  /\ UNCHANGED << modVars, slot, input, inputPtr, outputLen,
                  outputPtr, result >>

freePtr(c) ==
  /\ pc[c] = "free"
  /\ LET ptr == inputPtr[c]
         size == U32(input[c].len)
     IN
     IF NeedsFree(ptr)
     THEN /\ \E f \in CallOutcomes(closed) :
               /\ hist' = [hist EXCEPT
                            ![c].frees = Append(@, [ptr |-> ptr, size |-> size]),
                            ![c].freeErr = (f = "err")]
               /\ err' = [err EXCEPT ![c] = ErrAfterFree(@, f)]
          /\ allocd' = FreeCall(allocd, ptr, size)
          /\ mem' = Scrub(mem, ptr, size)
     ELSE UNCHANGED << hist, allocd, mem, err >>
  /\ pc' = [pc EXCEPT ![c] = "unlock"]
  /\ UNCHANGED << modVars, mu, slot, input, inputPtr, outputLen,
                  outputPtr, result >>

\* the values a call leaves behind when it returns: its locals are gone
Returned(c) ==
  /\ pc' = [pc EXCEPT ![c] = "idle"]
  /\ input' = [input EXCEPT ![c] = EmptyInput]
  /\ inputPtr' = [inputPtr EXCEPT ![c] = 0]
  /\ outputLen' = [outputLen EXCEPT ![c] = 0]
  /\ outputPtr' = [outputPtr EXCEPT ![c] = 0]
  /\ result' = [result EXCEPT ![c] = <<>>]
  /\ err' = [err EXCEPT ![c] = ""]
  /\ hist' = [hist EXCEPT ![c] = NoHist]

\* defer p.mu.Unlock(): the last step of Execute, which hands result and err
\* to the caller
Execute_UnlockOnSuccess(c) ==
  /\ pc[c] = "unlock"
  /\ mu' = IF err[c] = "" THEN NoOne ELSE mu
  /\ Returned(c)
  /\ UNCHANGED << modVars, wasmVars >>

Execute_Unlock(c) ==
  /\ pc[c] = "unlock"
  /\ mu' = NoOne
  /\ Returned(c)
  /\ UNCHANGED << modVars, wasmVars >>

\* --------------------------------------------------------------- Close
\* a goroutine calls p.Close(ctx)
Close_Call(c) ==
  /\ pc[c] = "idle"
  /\ p = "set"
  /\ pc' = [pc EXCEPT ![c] = "clock"]
  /\ UNCHANGED << modVars, mu, wasmVars, callVars >>

\* p.mu.Lock()
Close_LockNoWait(c) ==
  /\ pc[c] = "clock"
  /\ mu' = c
  /\ pc' = [pc EXCEPT ![c] = "cbody"]
  /\ UNCHANGED << modVars, wasmVars, callVars >>

Close_Lock(c) ==
  /\ pc[c] = "clock"
  /\ MutexFree(mu)
  /\ mu' = c
  /\ pc' = [pc EXCEPT ![c] = "cbody"]
  /\ UNCHANGED << modVars, wasmVars, callVars >>

\* if p.mod != nil { return p.mod.Close(ctx) }
Close_modSkip(c) ==
  /\ pc[c] = "cbody"
  /\ pc' = [pc EXCEPT ![c] = "cunlock"]
  /\ UNCHANGED << modVars, mu, wasmVars, callVars >>

Close_modOnce(c) ==
  /\ pc[c] = "cbody"
  /\ modState = "open"
  /\ modState' = "closed"
  /\ modules' = modules \ {ProtocGenProstWASMFilename}
  /\ pc' = [pc EXCEPT ![c] = "cunlock"]
  /\ UNCHANGED << exports, initCalls, p, newErr, closeDone, mu, wasmVars,
                  callVars >>

Close_mod(c) ==
  /\ pc[c] = "cbody"
  /\ modState' = "closed"
  /\ modules' = modules \ {ProtocGenProstWASMFilename}
  /\ pc' = [pc EXCEPT ![c] = "cunlock"]
  /\ UNCHANGED << exports, initCalls, p, newErr, closeDone, mu, wasmVars,
                  callVars >>

\* defer p.mu.Unlock(): the last step of Close
Close_Unlock(c) ==
  /\ pc[c] = "cunlock"
  /\ mu' = NoOne
  /\ closeDone' = TRUE
  /\ Returned(c)
  /\ UNCHANGED << modules, modState, exports, initCalls, p, newErr, wasmVars >>

\* a call of NewProtocGenProstWithModule with the runtime and some artifact;
\* a runtime that already holds the WASI module rejects the call before the
\* artifact is looked at, so one artifact stands for all of them there
New ==
  \E art \in (IF WasiModuleName \in modules THEN {RequiredSet} ELSE Artifacts),
     instOk \in (IF WasiModuleName \in modules THEN {TRUE} ELSE BOOLEAN),
     initOk \in (IF WasiModuleName \in modules THEN {TRUE} ELSE BOOLEAN) :
    NewProtocGenProstWithModule(art, instOk, initOk)

Execute(c) ==
  \/ Execute_Call(c)
  \/ Execute_Lock(c)
  \/ allocBytes(c)
  \/ Execute_prostExecute(c)
  \/ Execute_prostGetOutputPtr(c)
  \/ Execute_Read(c)
  \/ Execute_prostClearOutput(c)
  \/ freePtr(c)
  \/ Execute_Unlock(c)

Close(c) ==
  \/ Close_Call(c)
  \/ Close_Lock(c)
  \/ Close_mod(c)
  \/ Close_Unlock(c)

Next ==
  \/ New
  \/ \E c \in Callers : Execute(c)
  \/ \E c \in Callers : Close(c)

Spec == Init /\ [][Next]_vars

\* the steps a goroutine takes while it holds p.mu.  Each is a call into the
\* module or the host memory, or a deferred function: the goroutine is
\* runnable, and every export invocation is taken to return.
Holding(c) ==
  \/ allocBytes(c)
  \/ Execute_prostExecute(c)
  \/ Execute_prostGetOutputPtr(c)
  \/ Execute_Read(c)
  \/ Execute_prostClearOutput(c)
  \/ freePtr(c)
  \/ Execute_Unlock(c)
  \/ Close_mod(c)
  \/ Close_Unlock(c)

\* the holder of the lock keeps running; nothing is assumed about which
\* waiting caller sync.Mutex lets in, nor about callers arriving
FairSpec == Spec /\ \A c \in Callers : WF_vars(Holding(c))

\* ================================================================ claims
\* positions of Execute between p.mu.Lock() returning and p.mu.Unlock()
ExecuteLocked == {"alloc", "exec", "getptr", "read", "clear", "free", "unlock"}
\* positions of Execute after allocBytes has returned without error
AfterAlloc == {"exec", "getptr", "read", "clear", "free", "unlock"}
InFlight(c) == pc[c] \in ExecuteLocked
\* the call of c is about to hand (result, err) to its caller
Returning(c) == pc[c] = "unlock"

\* C1: at most one Execute call is between acquiring p.mu and releasing it,
\* and that call is the holder of the mutex.
C1_OneCallInFlight ==
  /\ \A c, d \in Callers : InFlight(c) /\ InFlight(d) => c = d
  /\ \A c \in Callers : InFlight(c) => mu = c

\* two concurrent callers: one inside the protocol, the other blocked in Lock
C1_Witness ==
  \E c, d \in Callers : c /= d /\ pc[c] = "read" /\ pc[d] = "lock"

\* C2: with concurrent callers on the one output slot, a successful call returns
\* the response the module generated for its own input.
C2_OwnOutput ==
  \A c \in Callers :
    Returning(c) /\ err[c] = "" => result[c] = Gen(Bytes(input[c]))

\* a call with a non-empty input succeeds while another caller waits
C2_Witness ==
  \E c, d \in Callers :
    /\ c /= d
    /\ Returning(c) /\ err[c] = "" /\ input[c].len > 0
    /\ result[c] = Gen(Bytes(input[c]))
    /\ pc[d] = "lock"

\* C3: once allocBytes has returned a non-zero pointer, prost_free is invoked
\* exactly once for it, with that pointer and the size given to prost_malloc,
\* not before the deferred freePtr runs, and on every exit path.
C3_FreedOnce ==
  \A c \in Callers :
    (pc[c] \in AfterAlloc /\ inputPtr[c] /= 0) =>
      /\ Len(hist[c].mallocs) = 1
      /\ IF Returning(c)
         THEN hist[c].frees =
                << [ptr |-> inputPtr[c], size |-> hist[c].mallocs[1]] >>
         ELSE hist[c].frees = << >>

\* the buffer has been freed on the exit path of a failed prost_clear_output
C3_Witness ==
  \E c \in Callers :
    /\ Returning(c) /\ inputPtr[c] /= 0
    /\ err[c] = "prost_clear_output failed"
    /\ Len(hist[c].frees) = 1

C5_EveryInstantiationYieldsInstance ==
  [][ \A art \in {RequiredSet, AllExports} :
        ((modules = {} \/ p = "set")
           /\ NewProtocGenProstWithModule(art, TRUE, TRUE)) => newErr' = "" ]_vars

\* C6: an artifact that lacks a required export yields no instance: the call
\* returns an error, the instantiated module is closed, prost_execute is never
\* invoked, and the error names an export the artifact lacks whenever the call
\* gets as far as resolving the exports.
C6_MissingExportState ==
  (modState /= "none" /\ ~(RequiredSet \subseteq exports)) =>
    /\ p = "nil"
    /\ modState = "closed"
    /\ ProtocGenProstWASMFilename \notin modules
    /\ newErr /= ""
    /\ \A c \in Callers : pc[c] = "idle" /\ hist[c].execs = << >>

\* (only a NewProtocGenProstWithModule step leaves every goroutine where it is;
\* a runtime that already holds the WASI module rejects every artifact alike)
C6_MissingExportStep ==
  (pc' = pc) =>
    IF WasiModuleName \in modules
    THEN newErr' /= "" /\ p' = p /\ modState' = modState
    ELSE \A art \in Artifacts, instOk \in BOOLEAN, initOk \in BOOLEAN :
           (~(RequiredSet \subseteq art)
              /\ NewProtocGenProstWithModule(art, instOk, initOk)) =>
             /\ newErr' /= ""
             /\ p' = p
             /\ modState' = IF instOk THEN "closed" ELSE modState
             /\ (instOk /\ (ExportInitialize \notin art \/ initOk)) =>
                  \E e \in RequiredSet \ art :
                    newErr' = "missing export: " \o e

\* C6: the state part in every reachable state, the step part on every
\* NewProtocGenProstWithModule call with an artifact lacking a required export
C6_MissingExport == [] C6_MissingExportState /\ [][C6_MissingExportStep]_vars

\* the artifact lacks two exports; the error names the first one validated
C6_Witness ==
  /\ exports = AllExports \ {ExportProstFree, ExportProstGetOutputLen}
  /\ newErr = "missing export: prost_free"
  /\ p = "nil" /\ modState = "closed" /\ initCalls = 1

\* C7: a call with an empty input never invokes prost_malloc or prost_free,
\* always gets past allocBytes, and invokes prost_execute with (0, 0).
C7_EmptyInput ==
  \A c \in Callers :
    (InFlight(c) /\ input[c].len = 0) =>
      /\ hist[c].mallocs = << >>
      /\ hist[c].frees = << >>
      /\ \A i \in 1..Len(hist[c].execs) : hist[c].execs[i] = [ptr |-> 0, len |-> 0]
      /\ Returning(c) =>
           /\ hist[c].execs = << [ptr |-> 0, len |-> 0] >>
           /\ err[c] \in {"", "prost_execute failed", "prost_get_output_ptr failed",
                          "failed to read output from memory",
                          "prost_clear_output failed"}

\* a call with an empty input returns successfully
C7_Witness ==
  \E c \in Callers :
    /\ Returning(c) /\ input[c].len = 0 /\ err[c] = ""
    /\ hist[c].execs = << [ptr |-> 0, len |-> 0] >>
    /\ hist[c].clears = 1

\* C8: an Execute that takes the lock after a Close has returned fails, with no
\* output and with the same error for the same input, and neither writes nor
\* reads the memory of the closed module.
C8_AfterClose ==
  \A c \in Callers :
    (InFlight(c) /\ hist[c].afterClose) =>
      /\ ~hist[c].wrote /\ ~hist[c].copied
      /\ Returning(c) =>
           /\ result[c] = << >>
           /\ err[c] = IF input[c].len = 0 THEN "prost_execute failed"
                       ELSE "failed to allocate input: call"

\* a call with the empty input has failed after Close
C8_Witness ==
  \E c \in Callers :
    /\ Returning(c) /\ hist[c].afterClose /\ input[c].len = 0
    /\ err[c] = "prost_execute failed"

\* C9: for a non-empty input, the value prost_execute returned (outputLen) is
\* what prost_get_output_len reports from that execute until the clear, and it
\* is the length of the bytes read and of the bytes a successful call returns.
C9_OutputLength ==
  \A c \in Callers :
    input[c].len > 0 =>
      /\ pc[c] \in {"getptr", "read", "clear"} => outputLen[c] = prostGetOutputLen
      /\ pc[c] = "clear" => Len(result[c]) = outputLen[c]
      /\ (pc[c] \in {"free", "unlock"} /\ err[c] = "" /\ hist[c].copied) =>
           Len(result[c]) = outputLen[c]

\* a successful call with a non-empty input returns a non-empty response
C9_Witness ==
  \E c \in Callers :
    /\ Returning(c) /\ err[c] = "" /\ input[c].len > 0
    /\ Len(result[c]) = outputLen[c] /\ outputLen[c] > 0

\* C10 (as claimed): once the output has been copied out, a failure of
\* prost_clear_output or of prost_free leaves the call successful, returning
\* the copied bytes.
C10_CleanupNeverOverrides ==
  \A c \in Callers :
    (Returning(c) /\ hist[c].copied /\ (hist[c].clearErr \/ hist[c].freeErr)) =>
      err[c] = "" /\ result[c] = hist[c].copy

\* C10 (amended): once the output has been copied out, a failure of prost_free
\* does not change the outcome; a failure of prost_clear_output makes Execute
\* return the error "prost_clear_output failed" and no bytes; otherwise the call
\* returns the copied bytes.
C10_OnlyFreeIsBestEffort ==
  \A c \in Callers :
    (Returning(c) /\ hist[c].copied) =>
      IF hist[c].clearErr
      THEN err[c] = "prost_clear_output failed" /\ result[c] = << >>
      ELSE err[c] = "" /\ result[c] = hist[c].copy

\* prost_free failed after a successful read and clear; the call still succeeds
C10_Witness ==
  \E c \in Callers :
    /\ Returning(c) /\ hist[c].copied /\ hist[c].freeErr /\ ~hist[c].clearErr
    /\ err[c] = "" /\ Len(result[c]) > 0

\* C11 (as claimed): when reading the output from instance memory fails,
\* prost_clear_output is still invoked before the call returns.
C11_ClearAfterFailedRead ==
  \A c \in Callers :
    (Returning(c) /\ err[c] = "failed to read output from memory") =>
      hist[c].clears >= 1

\* C11 (amended): when reading the output fails, Execute returns the read
\* error and no bytes still holding the lock, with the input buffer freed, but
\* prost_clear_output is not invoked: the module's output slot stays as
\* prost_execute left it.
C11_NoClearAfterFailedRead ==
  \A c \in Callers :
    (Returning(c) /\ err[c] = "failed to read output from memory") =>
      /\ hist[c].clears = 0
      /\ slot = [ptr |-> outputPtr[c], len |-> outputLen[c]]
      /\ ~MemReadOk(slot.ptr, slot.len)
      /\ result[c] = << >>
      /\ mu = c
      /\ inputPtr[c] /= 0 => Len(hist[c].frees) = 1

\* a call whose read was rejected returns, its input buffer freed
C11_Witness ==
  \E c \in Callers :
    /\ Returning(c) /\ err[c] = "failed to read output from memory"
    /\ inputPtr[c] /= 0 /\ Len(hist[c].frees) = 1
    /\ hist[c].clears = 0 /\ slot /= NoSlot

\* C12: Close can be called in every state of an instance, also after an
\* earlier Close: once it holds the lock it never blocks, it leaves the module
\* closed, it releases the lock when it returns, and a closed instance stays
\* closed.
C12_CloseState ==
  /\ closeDone => closed
  /\ \A c \in Callers :
       /\ (pc[c] = "idle" /\ p = "set") => ENABLED Close_Call(c)
       /\ pc[c] = "cbody" => (mu = c /\ ENABLED Close_mod(c))
       /\ pc[c] = "cunlock" => (mu = c /\ closed /\ ENABLED Close_Unlock(c))

C12_CloseStep ==
  \A c \in Callers :
    (pc[c] = "cunlock" /\ pc'[c] = "idle") =>
      (mu' = NoOne /\ modState' = "closed" /\ closeDone')

C12_CloseAnyTime == [] C12_CloseState /\ [][C12_CloseStep]_vars

\* a second Close, after an earlier one returned, is about to return
C12_Witness ==
  \E c \in Callers : closeDone /\ pc[c] = "cunlock" /\ closed

\* C13: an instantiated artifact that exports _initialize has it invoked
\* exactly once, before any other export is looked at or called: when it fails
\* the call returns the _initialize error whatever else the artifact lacks,
\* the module is closed and no instance is returned; no later operation
\* invokes it again.
C13_InitState ==
  /\ initCalls =
       IF modState /= "none" /\ ExportInitialize \in exports THEN 1 ELSE 0
  /\ newErr = "_initialize failed" =>
       /\ p = "nil" /\ modState = "closed" /\ initCalls = 1
       /\ ProtocGenProstWASMFilename \notin modules
       /\ \A c \in Callers : pc[c] = "idle" /\ hist[c] = NoHist

C13_InitStep ==
  (pc' = pc /\ WasiModuleName \notin modules) =>
    \A art \in Artifacts, instOk \in BOOLEAN, initOk \in BOOLEAN :
      (ExportInitialize \in art /\ instOk
         /\ NewProtocGenProstWithModule(art, instOk, initOk)) =>
        /\ initCalls' = initCalls + 1
        /\ wasmVars' = wasmVars
        /\ ~initOk =>
             /\ newErr' = "_initialize failed"
             /\ p' = "nil"
             /\ modState' = "closed"
             /\ ProtocGenProstWASMFilename \notin modules'
        /\ initOk => newErr' /= "_initialize failed"

C13_InitializeOnceFirst == [] C13_InitState /\ [][C13_InitStep]_vars

\* _initialize failed on an artifact that also lacks a required export
C13_Witness ==
  /\ newErr = "_initialize failed" /\ initCalls = 1
  /\ ExportInitialize \in exports /\ ExportProstMalloc \notin exports
  /\ modState = "closed" /\ p = "nil"

\* C14: when an Execute on an open instance returns an error of any kind, no
\* input buffer is outstanding and the lock is freed by the return, so a waiting
\* call can take the lock; a call that follows a failed one (finding the
\* output slot that call left behind) still returns the response to its own
\* input and leaves the slot cleared.
C14_FailedCallState ==
  /\ \A c \in Callers :
       /\ (Returning(c) /\ err[c] /= "" /\ ~closed) =>
            (allocd = {} /\ mu = c /\ result[c] = << >>)
       /\ (pc[c] = "lock" /\ mu = NoOne) => ENABLED Execute_Lock(c)
       /\ (Returning(c) /\ err[c] = "" /\ hist[c].staleSlot) =>
            (result[c] = Gen(Bytes(input[c])) /\ slot = NoSlot /\ allocd = {})
  /\ mu = NoOne => allocd = {}

C14_FailedCallStep ==
  \A c \in Callers :
    (pc[c] = "unlock" /\ pc'[c] = "idle") =>
      (mu' = NoOne /\ allocd' = {} /\ modState' = modState)

C15_AccessStep ==
  /\ \A c \in Callers :
       /\ (pc[c] \in {"alloc", "exec", "getptr", "read", "clear", "free"}
             /\ pc'[c] /= pc[c]) => (mu = c /\ mu' = c)
       /\ (pc[c] = "unlock" /\ pc'[c] = "idle") =>
            /\ mu = c
            /\ inputPtr[c] /= 0 =>
                 hist[c].frees = << [ptr |-> inputPtr[c],
                                     size |-> input[c].len] >>
            /\ allocd = {}
  /\ (wasmVars' /= wasmVars) =>
       \E c \in Callers :
         /\ mu = c /\ mu' = c
         /\ pc[c] \in {"alloc", "exec", "getptr", "read", "clear", "free"}

C15_AccessUnderLock == [][C15_AccessStep]_vars

\* the deferred free of one caller has run while another waits for the lock
C15_Witness ==
  \E c, d \in Callers :
    /\ c /= d /\ pc[d] = "lock"
    /\ Returning(c) /\ mu = c /\ inputPtr[c] /= 0
    /\ Len(hist[c].frees) = 1 /\ hist[c].clears = 1

\* C16: the lock is released on every exit path of Execute and of Close:
\* whenever a caller waits for the lock that another call holds, that call
\* eventually completes and the lock becomes free (every export invocation
\* returning; no caller is promised to be the one that gets the lock next).
C16_LockEventuallyFree ==
  ((\E c \in Callers : pc[c] \in {"lock", "clock"}) /\ mu /= NoOne)
    ~> (mu = NoOne)

\* an Execute waits for the lock while a Close holds it
C16_Witness ==
  \E c, d \in Callers :
    c /= d /\ pc[c] = "lock" /\ pc[d] = "cbody" /\ mu = d

\* C17: for a non-empty input, when the invocation of prost_malloc fails or
\* returns pointer 0, Execute goes straight to its return with an allocation
\* error and no output: prost_execute, the memory write and prost_free are
\* not invoked, and the only step left is the release of the lock.
C17_NullAllocation ==
  \A c \in Callers :
    (InFlight(c) /\ hist[c].nullAlloc) =>
      /\ Returning(c) /\ mu = c /\ ENABLED Execute_Unlock(c)
      /\ input[c].len > 0
      /\ err[c] \in {"failed to allocate input: call",
                     "failed to allocate input: malloc returned null"}
      /\ result[c] = << >>
      /\ hist[c].execs = << >> /\ hist[c].frees = << >> /\ ~hist[c].wrote
      /\ hist[c].mallocs = << input[c].len >>
      /\ hist[c].clears = 0 /\ inputPtr[c] = 0

\* prost_malloc returned null on an open instance
C17_Witness ==
  \E c \in Callers :
    /\ Returning(c) /\ hist[c].nullAlloc /\ ~closed
    /\ err[c] = "failed to allocate input: malloc returned null"
    /\ hist[c].execs = << >> /\ hist[c].frees = << >>

\* C18: when prost_malloc returned a non-zero pointer and the write of the
\* input into instance memory is rejected, prost_free is invoked exactly once,
\* by allocBytes, with that pointer and the size given to prost_malloc, and
\* not again by the deferred release of Execute; the call returns the
\* memory-write error with no output, and prost_execute is not invoked.
C18_RejectedWrite ==
  \A c \in Callers :
    (InFlight(c) /\ hist[c].writeRej) =>
      /\ Returning(c) /\ mu = c
      /\ err[c] = "failed to allocate input: failed to write to memory"
      /\ result[c] = << >>
      /\ Len(hist[c].mallocs) = 1 /\ Len(hist[c].frees) = 1
      /\ hist[c].frees[1].size = hist[c].mallocs[1]
      /\ hist[c].frees[1].ptr /= 0
      /\ ~MemWriteOk(hist[c].frees[1].ptr, hist[c].frees[1].size)
      /\ inputPtr[c] = 0
      /\ hist[c].execs = << >> /\ ~hist[c].wrote /\ hist[c].clears = 0
      /\ allocd = {}

\* the module handed out a pointer outside its memory; the region was freed
C18_Witness ==
  \E c \in Callers :
    /\ Returning(c) /\ hist[c].writeRej /\ ~closed
    /\ hist[c].frees = << [ptr |-> OobPtr, size |-> input[c].len] >>
    /\ err[c] = "failed to allocate input: failed to write to memory"

\* C19: in every successful call the output is copied out of instance memory
\* while the slot still holds the response of this call's prost_execute,
\* before prost_clear_output is invoked and before any other prost_execute;
\* the bytes the call returns are that copy, unchanged by the clear and the
\* free that follow it.
C19_CopyBeforeClear ==
  \A c \in Callers :
    /\ pc[c] = "read" =>
         /\ slot = [ptr |-> outputPtr[c], len |-> outputLen[c]]
         /\ Len(hist[c].execs) = 1 /\ hist[c].clears = 0
    /\ pc[c] = "clear" =>
         /\ hist[c].copied /\ hist[c].clears = 0
         /\ result[c] = hist[c].copy
         /\ Len(hist[c].execs) = 1
         /\ slot = [ptr |-> outputPtr[c], len |-> outputLen[c]]
    /\ (pc[c] \in {"free", "unlock"} /\ err[c] = "") =>
         /\ hist[c].copied /\ hist[c].clears = 1
         /\ Len(hist[c].execs) = 1
         /\ result[c] = hist[c].copy
         /\ hist[c].copy = Gen(Bytes(input[c]))
         /\ slot = NoSlot

\* the call returns its copy after the module released and wiped the output
C19_Witness ==
  \E c \in Callers :
    /\ Returning(c) /\ err[c] = "" /\ hist[c].copied
    /\ Len(result[c]) = 1 /\ result[c][1] /= 0
    /\ mem[OutBase] = 0 /\ slot = NoSlot

\* C20: Close takes the lock Execute takes: the module of an instance is
\* closed only by a Close that holds the lock, while no Execute is between
\* acquiring and releasing it and no input buffer is outstanding; a Close
\* issued during a call waits, and the module stays as it is through every
\* step of that call.
C20_CloseStep ==
  /\ (p = "set" /\ modState' /= modState) =>
       /\ \E d \in Callers : mu = d /\ pc[d] = "cbody" /\ pc'[d] = "cunlock"
       /\ \A c \in Callers : ~InFlight(c)
       /\ allocd = {}
  /\ \A c \in Callers :
       /\ (InFlight(c) /\ pc'[c] /= pc[c]) => modState' = modState
       /\ (pc[c] = "clock" /\ pc'[c] = "cbody") =>
            (mu = NoOne /\ \A d \in Callers : ~InFlight(d))

C20_CloseWaitsForCall == [][C20_CloseStep]_vars

\* a Close issued during a call waits while the call frees its input buffer
C20_Witness ==
  \E c, d \in Callers :
    /\ pc[c] = "clock" /\ pc[d] = "free" /\ mu = d
    /\ inputPtr[d] /= 0 /\ modState = "open"

====
